---- MODULE Spec2Model ----
(***************************************************************************)
(* Single_Mubit_Game.py: a one-qubit circuit `circ` grown by key presses,  *)
(* sonified by sound() and redrawn on a canvas after every key event.      *)
(*                                                                         *)
(* Amplitudes are kept exactly.  Every gate of the program has entries in  *)
(* Q(sqrt 2, sqrt 3, i) with denominators that are powers of two           *)
(* (cos(pi/12) = (sqrt 6 + sqrt 2)/4, sin(pi/12) = (sqrt 6 - sqrt 2)/4),   *)
(* so a real number is a 4-tuple <<a,b,c,d>> = a + b*sqrt2 + c*sqrt3 +     *)
(* d*sqrt6 of integers, a complex number is [re, im] of two such tuples,   *)
(* and a statevector is [a0, a1, e] standing for (a0, a1) / 2^e, reduced   *)
(* so that the representation of a vector is unique.                       *)
(***************************************************************************)
EXTENDS Integers, Sequences, FiniteSets, TLC

\* Number of key events of one session that the model explores.
MaxKeys == 3
\* Length of a long run of gate keys, and the largest coefficient of a
\* statevector that the long run is followed through.
WalkLength == 50
MaxCoef == 1

---------------------------------------------------------------------------
\* Exact real arithmetic in Z[sqrt 2, sqrt 3]

RZero == <<0, 0, 0, 0>>
ROne == <<1, 0, 0, 0>>
RSqrt2 == <<0, 1, 0, 0>>
\* 4*cos(pi/12) = sqrt 6 + sqrt 2 and 4*sin(pi/12) = sqrt 6 - sqrt 2
RCos4 == <<0, 1, 0, 1>>
RSin4 == <<0, -1, 0, 1>>

RAdd(x, y) == <<x[1] + y[1], x[2] + y[2], x[3] + y[3], x[4] + y[4]>>
RNeg(x) == <<-x[1], -x[2], -x[3], -x[4]>>
RSub(x, y) == <<x[1] - y[1], x[2] - y[2], x[3] - y[3], x[4] - y[4]>>
RMul(x, y) ==
  IF x = RZero \/ y = RZero THEN RZero
  ELSE
  << x[1]*y[1] + 2*x[2]*y[2] + 3*x[3]*y[3] + 6*x[4]*y[4],
     x[1]*y[2] + x[2]*y[1] + 3*(x[3]*y[4] + x[4]*y[3]),
     x[1]*y[3] + x[3]*y[1] + 2*(x[2]*y[4] + x[4]*y[2]),
     x[1]*y[4] + x[4]*y[1] + x[2]*y[3] + x[3]*y[2] >>
REven(x) == x[1] % 2 = 0 /\ x[2] % 2 = 0 /\ x[3] % 2 = 0 /\ x[4] % 2 = 0
RHalf(x) == <<x[1] \div 2, x[2] \div 2, x[3] \div 2, x[4] \div 2>>

\* Sign of p - q*sqrt2 for integers p, q > 0, by the continued fraction of
\* sqrt 2: p/q > sqrt2  iff  (2q - p)/(p - q) < sqrt2  when q < p < 2q.
RECURSIVE CmpSqrt2(_, _)
CmpSqrt2(p, q) ==
  IF p >= 2*q THEN 1
  ELSE IF p <= q THEN -1
  ELSE -CmpSqrt2(2*q - p, p - q)

\* Sign of p + q*sqrt2
Sign2(p, q) ==
  IF p >= 0 /\ q >= 0 THEN (IF p = 0 /\ q = 0 THEN 0 ELSE 1)
  ELSE IF p <= 0 /\ q <= 0 THEN -1
  ELSE IF p > 0 THEN CmpSqrt2(p, -q)
  ELSE -CmpSqrt2(-p, q)

\* Sign of x = P + Q*sqrt3 with P = x1 + x2*sqrt2, Q = x3 + x4*sqrt2:
\* when P and Q differ in sign, the sign of P^2 - 3*Q^2 decides.
RSign(x) ==
  LET sP == Sign2(x[1], x[2])
      sQ == Sign2(x[3], x[4])
      d  == Sign2(x[1]*x[1] + 2*x[2]*x[2] - 3*(x[3]*x[3] + 2*x[4]*x[4]),
                  2*x[1]*x[2] - 6*x[3]*x[4])
  IN  IF sP >= 0 /\ sQ >= 0 THEN (IF sP = 0 /\ sQ = 0 THEN 0 ELSE 1)
      ELSE IF sP <= 0 /\ sQ <= 0 THEN -1
      ELSE IF sP > 0 THEN d
      ELSE -d

---------------------------------------------------------------------------
\* Exact complex arithmetic

Cx(r, i) == [re |-> r, im |-> i]
CZero == Cx(RZero, RZero)
COne == Cx(ROne, RZero)
CI == Cx(RZero, ROne)
CAdd(u, v) == Cx(RAdd(u.re, v.re), RAdd(u.im, v.im))
CNeg(u) == Cx(RNeg(u.re), RNeg(u.im))
CMul(u, v) ==
  IF u = CZero \/ v = CZero THEN CZero
  ELSE Cx(RSub(RMul(u.re, v.re), RMul(u.im, v.im)),
          RAdd(RMul(u.re, v.im), RMul(u.im, v.re)))
CEven(u) == REven(u.re) /\ REven(u.im)
CHalf(u) == Cx(RHalf(u.re), RHalf(u.im))
\* |u|^2
CAbs2(u) == RAdd(RMul(u.re, u.re), RMul(u.im, u.im))

RECURSIVE Pow2(_)
Pow2(n) == IF n = 0 THEN 1 ELSE 2 * Pow2(n - 1)

---------------------------------------------------------------------------
\* Statevectors and the gates of qiskit that key_press appends

\* (a0, a1) / 2^e
Vec(a0, a1, e) == [a0 |-> a0, a1 |-> a1, e |-> e]

\* The unique representation: halve while every coefficient is even.
RECURSIVE Reduce(_)
Reduce(s) ==
  IF s.e > 0 /\ CEven(s.a0) /\ CEven(s.a1)
  THEN Reduce(Vec(CHalf(s.a0), CHalf(s.a1), s.e - 1))
  ELSE s

RWithin(x, m) == \A i \in 1..4 : x[i] <= m /\ -x[i] <= m
CoefsWithin(s, m) ==
  /\ RWithin(s.a0.re, m) /\ RWithin(s.a0.im, m)
  /\ RWithin(s.a1.re, m) /\ RWithin(s.a1.im, m)

\* |0>, the state of a fresh QuantumCircuit
Ket0 == Vec(COne, CZero, 0)
Ket1 == Vec(CZero, COne, 0)

\* A 2x2 matrix [[m00, m01], [m10, m11]] / 2^e
Mat(m00, m01, m10, m11, e) ==
  [m00 |-> m00, m01 |-> m01, m10 |-> m10, m11 |-> m11, e |-> e]

\* U * s, a plain matrix-vector product (no renormalisation)
Apply(U, s) ==
  Reduce(Vec(CAdd(CMul(U.m00, s.a0), CMul(U.m01, s.a1)),
             CAdd(CMul(U.m10, s.a0), CMul(U.m11, s.a1)),
             s.e + U.e))

\* A Hadamard without its 1/sqrt2
HGate_Unnormalised ==
  Mat(COne, COne, COne, CNeg(COne), 0)

\* 1/sqrt2 [[1, 1], [1, -1]] = [[sqrt2, sqrt2], [sqrt2, -sqrt2]] / 2
HGate ==
  Mat(Cx(RSqrt2, RZero), Cx(RSqrt2, RZero),
      Cx(RSqrt2, RZero), Cx(RNeg(RSqrt2), RZero), 1)
XGate == Mat(CZero, COne, COne, CZero, 0)
YGate == Mat(CZero, CNeg(CI), CI, CZero, 0)
ZGate == Mat(COne, CZero, CZero, CNeg(COne), 0)

\* The sign of the angle lost
Sin4_NoSign(t) == RSin4

\* 4*cos(t*pi/12) and 4*sin(t*pi/12) for the half angle of t*pi/6, t = 1 or -1
Cos4(t) == RCos4
Sin4(t) == IF t >= 0 THEN RSin4 ELSE RNeg(RSin4)

\* RX(th) = [[cos th/2, -i sin th/2], [-i sin th/2, cos th/2]], th = t*pi/6
RXGate(t) ==
  Mat(Cx(Cos4(t), RZero), Cx(RZero, RNeg(Sin4(t))),
      Cx(RZero, RNeg(Sin4(t))), Cx(Cos4(t), RZero), 2)
\* RY with the sign of its upper right entry lost
RYGate_SignLost(t) ==
  Mat(Cx(Cos4(t), RZero), Cx(Sin4(t), RZero),
      Cx(Sin4(t), RZero), Cx(Cos4(t), RZero), 2)

\* RY(th) = [[cos th/2, -sin th/2], [sin th/2, cos th/2]]
RYGate(t) ==
  Mat(Cx(Cos4(t), RZero), Cx(RNeg(Sin4(t)), RZero),
      Cx(Sin4(t), RZero), Cx(Cos4(t), RZero), 2)
\* RZ(th) = diag(exp(-i th/2), exp(i th/2)), the matrix of qiskit's RZGate
RZGate(t) ==
  Mat(Cx(Cos4(t), RNeg(Sin4(t))), CZero,
      CZero, Cx(Cos4(t), Sin4(t)), 2)

\* An instruction of the circuit: a gate name and, for a rotation, its angle
\* in units of pi/6 (0 for the gates without a parameter).
Instr(name, t) == [name |-> name, t |-> t]

GateMatrix(g) ==
  CASE g.name = "h" -> HGate
    [] g.name = "x" -> XGate
    [] g.name = "y" -> YGate
    [] g.name = "z" -> ZGate
    [] g.name = "rx" -> RXGate(g.t)
    [] g.name = "ry" -> RYGate(g.t)
    [] g.name = "rz" -> RZGate(g.t)

\* execute(circ, statevector_simulator).result().get_statevector(): the
\* circuit is run from |0> every time.
RECURSIVE Execute(_)
Execute(c) ==
  IF c = <<>> THEN Ket0
  ELSE Apply(GateMatrix(c[Len(c)]), Execute(SubSeq(c, 1, Len(c) - 1)))

---------------------------------------------------------------------------
\* sound(circ, note)

\* Angles are kept as interval codes in a unit u: the code 2k is the angle
\* k*u exactly and the code 2k+1 is an angle strictly between k*u and (k+1)*u.

\* The sharps given the frequency of their natural
Frequency_NoSharp(note) ==
  CASE note = "C" \/ note = "C#" -> -9
    [] note = "D" \/ note = "D#" -> -7
    [] note = "E" -> -5
    [] note = "F" \/ note = "F#" -> -4
    [] note = "G" \/ note = "G#" -> -2
    [] note = "A" \/ note = "A#" -> 0
    [] note = "B" -> 2

\* The note's frequency is 440 * 2^(n/12); the model keeps the exponent n.
Frequency(note) ==
  CASE note = "C" -> -9
    [] note = "C#" \/ note = "Db" -> -8
    [] note = "D" -> -7
    [] note = "D#" \/ note = "Eb" -> -6
    [] note = "E" -> -5
    [] note = "F" -> -4
    [] note = "F#" \/ note = "Gb" -> -3
    [] note = "G" -> -2
    [] note = "G#" \/ note = "Ab" -> -1
    [] note = "A" -> 0
    [] note = "A#" \/ note = "Bb" -> 1
    [] note = "B" -> 2

\* np.arccos of the complex number z / 2^e, real part taken (np.real is
\* applied to 2*arccos(sv[0]) and sv[0] is a complex128): with
\* al = (|z+1| + |z-1|)/2 >= 1 the real part is the real arccos of Re(z)/al,
\* and al = 1 exactly when Im(z) = 0 and |Re(z)| <= 1.
\* The value is kept as the argument it was computed from; the imaginary
\* part is dropped when Re(z) = 0, where the result is pi/2 whatever it is.
ArcCosRe(z, e) ==
  [re |-> z.re, im |-> IF z.re = RZero THEN RZero ELSE z.im, e |-> e]

\* The interval code, unit pi/2, of an ArcCosRe value (for |z| <= 2^e):
\* 0 at z = 1, pi at z = -1, pi/2 at Re(z) = 0, and on the side of pi/2
\* that the sign of Re(z) tells otherwise.
ArcCosCode(a) ==
  LET one == <<Pow2(a.e), 0, 0, 0>>
      s == RSign(a.re)
  IN  IF a.im = RZero /\ RSign(RSub(a.re, one)) >= 0 THEN 0
      ELSE IF a.im = RZero /\ RSign(RAdd(a.re, one)) <= 0 THEN 4
      ELSE IF s > 0 THEN 1
      ELSE IF s = 0 THEN 2
      ELSE 3

\* theta = np.real(2*np.arccos(sv[0])): the arccos value, read in unit pi
Theta(sv) == ArcCosRe(sv.a0, sv.e)
ThetaCode(th) == ArcCosCode(th)

\* np.angle(sv[1]) = atan2(Im, Re), in (-pi, pi], as an interval code of
\* unit pi/2
AngleCode(z) ==
  LET sr == RSign(z.re)
      si == RSign(z.im)
  IN  IF si = 0 THEN (IF sr >= 0 THEN 0 ELSE 4)
      ELSE IF si > 0 THEN 2 - sr
      ELSE sr - 2

\* phi = np.real(np.angle(sv[1])); if phi < 0: phi = 2*pi + phi
Phi(sv) ==
  LET phi == AngleCode(sv.a1)
  IN  IF phi < 0 THEN 8 + phi ELSE phi

\* cos(theta) in place of cos(theta/2): 1 at 0 and 2*pi, -1 at pi, and
\* anything in (-1, 1) in between (given here as 1, inside (0, 1))
CosHalf_FullAngle(th) ==
  IF ThetaCode(th) = 2 THEN -2
  ELSE IF ThetaCode(th) = 0 \/ ThetaCode(th) = 4 THEN 2
  ELSE 1

\* cos and sin of theta/2 as interval codes on [-1, 1]: 2 is 1, 1 is inside
\* (0, 1), 0 is 0, -1 is inside (-1, 0), -2 is -1.  theta/2 has the code of
\* theta read in unit pi/2.
CosHalf(th) == 2 - ThetaCode(th)
SinHalf(th) == IF ThetaCode(th) <= 2 THEN ThetaCode(th) ELSE 4 - ThetaCode(th)

\* t = np.linspace(0, seconds, seconds * fs, False): seconds * fs is the
\* float 22050.0, which the numpy of the program's time takes as 22050
\* samples 0, 1/fs, 2/fs, ... (a later numpy refuses a float count).
\* One channel amp * sin(2^(bend/2pi) * f*t*2*pi + quarter*pi/2) over the
\* time vector t: amp as a code on [-1, 1], f as the note's exponent, bend
\* as the code of phi (0: no bend).  The carrier is not identically 0 on t
\* (it is 1 at t = 0 when quarter = 1, and sin(2*pi*f/fs) # 0 at the second
\* sample when quarter = 0), so a channel is all zero exactly when amp = 0.
Channel(amp, f, bend, quarter) ==
  [amp |-> amp, f |-> f, bend |-> bend, quarter |-> quarter]

\* np.max(np.abs(note)) is 0 exactly when both channels are all zero
PeakIsZero(left, right) == left.amp = 0 /\ right.amp = 0

\* audio = note * (2**15 - 1) / np.max(np.abs(note)), then astype(np.int16):
\* the division is made whatever the peak is; 0/0 is nan, whose conversion
\* to int16 is not defined.  A channel that is all zero stays all zero.
Scale(ch, peakZero) ==
  IF peakZero THEN [silent |-> "undefined", f |-> ch.f, bend |-> ch.bend,
                    quarter |-> ch.quarter, full |-> FALSE]
  ELSE [silent |-> (ch.amp = 0), f |-> ch.f, bend |-> ch.bend,
        quarter |-> ch.quarter, full |-> (ch.amp = 2 \/ ch.amp = -2)]

\* Lines 63-65 on the two channels: the buffer handed to play_buffer, with
\* the values it was made from.  The division is always made.
Normalise(note, f, theta, phi, left, right) ==
  [note |-> note, f |-> f, theta |-> theta, phi |-> phi,
   divided |-> TRUE, peakZero |-> PeakIsZero(left, right),
   left |-> Scale(left, PeakIsZero(left, right)),
   right |-> Scale(right, PeakIsZero(left, right))]

\* left = cos(theta/2) * sin(f*t*2*pi)
\* right = sin(theta/2) * sin(2^(phi/(2*pi)) * f*t*2*pi + pi/2)
Synthesise(note, f, theta, phi) ==
  Normalise(note, f, theta, phi,
            Channel(CosHalf(theta), f, 0, 0),
            Channel(SinHalf(theta), f, phi, 1))

\* theta and phi of the statevector, then the synthesis
SoundOfState(note, sv) == Synthesise(note, Frequency(note), Theta(sv), Phi(sv))

\* sound(circ, note): the circuit is executed and the buffer made and played
sound(c, note) == SoundOfState(note, Execute(c))

---------------------------------------------------------------------------
\* The window: the circuit, the note field, the canvas, and key_press

VARIABLES
  circ,     \* the QuantumCircuit: the instructions appended so far
  text,     \* the content of the note field
  canvas,   \* the statevector the canvas shows
  played,   \* the buffers played during the last key event
  trace,    \* the steps of the last key event, in the order they ran
  event,    \* the keysym of the last key event ("" before the first)
  nKeys,    \* the number of key events so far
  walk,     \* long run: the statevector of the circuit, kept in its place
  presses   \* long run: the number of gate keys pressed

session == <<circ, text, canvas, played, trace, event, nKeys>>
vars == <<circ, text, canvas, played, trace, event, nKeys, walk, presses>>

entry_list == <<"c", "C", "d", "D", "e", "f", "F", "g", "G", "a", "A", "b">>
note_list ==
  <<"C", "C#", "D", "D#", "E", "F", "F#", "G", "G#", "A", "A#", "B">>

\* The keysyms bound to a gate
GateKeys == {"h", "1", "2", "3", "x", "y", "z", "X", "Y", "Z"}
NoteKeys == {entry_list[i] : i \in 1..12}
\* Keysyms bound to nothing: a letter, a modifier, the capital of a bound key
OtherKeys == {"q", "Shift_L", "H"}
Keys == GateKeys \cup NoteKeys \cup OtherKeys

Last(c) == c[Len(c)]

\* One `if event.char == key: circ.gate(q[0])` of key_press
IfKey(c, char, key, g) == IF char = key THEN Append(c, g) ELSE c

\* The ifs with the capitals given the angle of the small letters
GateIfs_NoSign(c, char) ==
  LET c1 == IfKey(c, char, "h", Instr("h", 0))
      c2 == IfKey(c1, char, "1", Instr("x", 0))
      c3 == IfKey(c2, char, "2", Instr("y", 0))
      c4 == IfKey(c3, char, "3", Instr("z", 0))
      c5 == IfKey(c4, char, "x", Instr("rx", 1))
      c6 == IfKey(c5, char, "y", Instr("ry", 1))
      c7 == IfKey(c6, char, "z", Instr("rz", 1))
      c8 == IfKey(c7, char, "X", Instr("rx", 1))
      c9 == IfKey(c8, char, "Y", Instr("ry", 1))
  IN  IfKey(c9, char, "Z", Instr("rz", 1))

\* The ifs with the Hadamard bound to the capital H as well
GateIfs_CaseFold(c, char) ==
  LET c1 == IfKey(c, IF char = "H" THEN "h" ELSE char, "h", Instr("h", 0))
      c2 == IfKey(c1, char, "1", Instr("x", 0))
      c3 == IfKey(c2, char, "2", Instr("y", 0))
      c4 == IfKey(c3, char, "3", Instr("z", 0))
      c5 == IfKey(c4, char, "x", Instr("rx", 1))
      c6 == IfKey(c5, char, "y", Instr("ry", 1))
      c7 == IfKey(c6, char, "z", Instr("rz", 1))
      c8 == IfKey(c7, char, "X", Instr("rx", -1))
      c9 == IfKey(c8, char, "Y", Instr("ry", -1))
  IN  IfKey(c9, char, "Z", Instr("rz", -1))

\* The ten ifs of key_press, in their order
GateIfs(c, char) ==
  LET c1 == IfKey(c, char, "h", Instr("h", 0))
      c2 == IfKey(c1, char, "1", Instr("x", 0))
      c3 == IfKey(c2, char, "2", Instr("y", 0))
      c4 == IfKey(c3, char, "3", Instr("z", 0))
      c5 == IfKey(c4, char, "x", Instr("rx", 1))
      c6 == IfKey(c5, char, "y", Instr("ry", 1))
      c7 == IfKey(c6, char, "z", Instr("rz", 1))
      c8 == IfKey(c7, char, "X", Instr("rx", -1))
      c9 == IfKey(c8, char, "Y", Instr("ry", -1))
  IN  IfKey(c9, char, "Z", Instr("rz", -1))

\* for i in range(12): if event.char == entry_list[i]: the note field is
\* rewritten, then sound() synthesises, plays and waits for the playback
\* (play_obj.wait_done()) before the loop goes on.  r = [text, played, trace].
RECURSIVE NoteLoop(_, _, _, _)
NoteLoop(i, char, c, r) ==
  IF i > 12 THEN r
  ELSE IF char = entry_list[i]
  THEN NoteLoop(i + 1, char, c,
                [text |-> note_list[i],
                 played |-> Append(r.played, sound(c, note_list[i])),
                 trace |-> r.trace \o <<"text", "sound", "play", "wait_done">>])
  ELSE NoteLoop(i + 1, char, c, r)

\* One "gate" step per instruction appended
RECURSIVE Steps(_, _)
Steps(n, label) == IF n = 0 THEN <<>> ELSE <<label>> \o Steps(n - 1, label)

Init ==
  /\ circ = <<>>
  /\ text = note_list[1]
  /\ canvas = Execute(<<>>)
  /\ played = <<>>
  /\ trace = <<"draw">>
  /\ event = ""
  /\ nKeys = 0
  /\ walk = Execute(<<>>)
  /\ presses = 0

\* key_press with the canvas drawn from the circuit as it was before the
\* gate ifs ran
key_press_StaleCanvas(k) ==
  LET c == GateIfs(circ, k)
      r == NoteLoop(1, k, c,
                    [text |-> text, played |-> <<>>,
                     trace |-> Steps(Len(c) - Len(circ), "gate")])
  IN  /\ circ' = c
      /\ text' = r.text
      /\ played' = r.played
      /\ canvas' = Execute(circ)
      /\ trace' = Append(r.trace, "draw")
      /\ event' = k
      /\ nKeys' = nKeys + 1
      /\ UNCHANGED <<walk, presses>>

\* key_press(event) for the keysym k: the gate ifs, the note loop, then the
\* circuit is executed again and the canvas redrawn.
key_press(k) ==
  LET c == GateIfs(circ, k)
      r == NoteLoop(1, k, c,
                    [text |-> text, played |-> <<>>,
                     trace |-> Steps(Len(c) - Len(circ), "gate")])
  IN  /\ circ' = c
      /\ text' = r.text
      /\ played' = r.played
      /\ canvas' = Execute(c)
      /\ trace' = Append(r.trace, "draw")
      /\ event' = k
      /\ nKeys' = nKeys + 1
      /\ UNCHANGED <<walk, presses>>

GateKey == \E k \in GateKeys : nKeys < MaxKeys /\ key_press(k)
NoteKey == \E k \in NoteKeys : nKeys < MaxKeys /\ key_press(k)
OtherKey == \E k \in OtherKeys : nKeys < MaxKeys /\ key_press(k)

Next == GateKey \/ NoteKey \/ OtherKey

Spec == Init /\ [][Next]_vars

\* A long run of gate keys.  The circuit of a long run is not kept: by
\* Execute, the statevector of the circuit with one more instruction g is
\* GateMatrix(g) applied to the statevector of the circuit, and walk is that
\* statevector.  The run is followed while the integer coefficients of the
\* statevector stay within MaxCoef.
WalkKey ==
  \E k \in GateKeys :
    LET g == Last(GateIfs(<<>>, k))
        s == Apply(GateMatrix(g), walk)
    IN  /\ presses < WalkLength
        /\ CoefsWithin(s, MaxCoef)
        /\ walk' = s
        /\ presses' = presses + 1
        /\ UNCHANGED session

SpecWalk == Init /\ [][WalkKey]_vars

---------------------------------------------------------------------------
\* Properties

\* |a0|^2 + |a1|^2 = 1, that is, the sum of the numerators is 4^e
Normalised(s) ==
  RAdd(CAbs2(s.a0), CAbs2(s.a1)) = <<Pow2(s.e) * Pow2(s.e), 0, 0, 0>>

\* The gate table of the key bindings
BoundGate(k) ==
  CASE k = "h" -> HGate
    [] k = "1" -> XGate
    [] k = "2" -> YGate
    [] k = "3" -> ZGate
    [] k = "x" -> RXGate(1)
    [] k = "y" -> RYGate(1)
    [] k = "z" -> RZGate(1)
    [] k = "X" -> RXGate(-1)
    [] k = "Y" -> RYGate(-1)
    [] k = "Z" -> RZGate(-1)

\* The circuit without its last n instructions
DropLast(c, n) == SubSeq(c, 1, Len(c) - n)
Before(c) == c[Len(c) - 1]

\* A key event has just been handled
KeyStep == nKeys' = nKeys + 1

\* C1: a gate key replaces the state s by U_k * s for the gate U_k bound to
\* the key, appends exactly one instruction and plays no note.
C1_GateKeyAppliesItsGate ==
  [][(KeyStep /\ event' \in GateKeys) =>
       /\ Execute(circ') = Apply(BoundGate(event'), Execute(circ))
       /\ Len(circ') = Len(circ) + 1
       /\ DropLast(circ', 1) = circ
       /\ played' = <<>>]_vars

C1_Witness ==
  /\ event = "Y"
  /\ Len(circ) = 3
  /\ circ[1].name = "h"
  /\ circ[2].name = "rz"

\* C2: the i-th note key requests the i-th pitch class, at 440 * 2^((i-9)/12)
\* Hz (i from 0), plays exactly one buffer, made from the state of the
\* circuit as the gate keys before it left it, and leaves the state as it is.
C2_NoteKeySonifiesCurrentState ==
  [][\A i \in 1..12 :
       (KeyStep /\ event' = entry_list[i]) =>
         /\ Len(played') = 1
         /\ played'[1].note =
              <<"C", "C#", "D", "D#", "E", "F", "F#", "G", "G#", "A", "A#",
                "B">>[i]
         /\ played'[1].f = (i - 1) - 9
         /\ played'[1].theta = Theta(Execute(circ))
         /\ played'[1].phi = Phi(Execute(circ))
         /\ circ' = circ
         /\ Execute(circ') = Execute(circ)]_vars

C2_Witness ==
  /\ event = "G"
  /\ Len(played) = 1
  /\ played[1].note = "G#"
  /\ Len(circ) = 2

\* C3: a key bound to neither a gate nor a note applies no gate, leaves the
\* state as it is and plays nothing.
C3_UnboundKeyIgnored ==
  [][(KeyStep /\ event' \notin (GateKeys \cup NoteKeys)) =>
       /\ circ' = circ
       /\ Execute(circ') = Execute(circ)
       /\ played' = <<>>]_vars

C3_Witness ==
  /\ event = "H"
  /\ circ = <<Instr("ry", -1)>>
  /\ text = "D#"

\* C4: after every sequence of gate keys from (1, 0), as long as 50 and
\* longer, the state is normalised: |a0|^2 + |a1|^2 = 1 (checked under
\* SpecWalk, in exact arithmetic).
C4_Normalised == Normalised(walk)

\* Fifty gate keys have been pressed and the state reached is none of the
\* states that H and the Pauli gates alone reach.
C4_Witness ==
  /\ presses = 50
  /\ walk.e = 2
  /\ walk.a0 # CZero
  /\ walk.a1 # CZero

\* The same for the circuit and the canvas of a session (under Spec).
SessionNormalised == Normalised(Execute(circ)) /\ Normalised(canvas)

\* C5: pressing the key of H, X, Y or Z twice in succession gives back the
\* state before the two presses (exactly, hence also up to a global phase).
C5_Involution ==
  \A p \in {<<"h", "h">>, <<"1", "x">>, <<"2", "y">>, <<"3", "z">>} :
    (/\ event = p[1]
     /\ Len(circ) >= 2
     /\ Last(circ) = Instr(p[2], 0)
     /\ Before(circ) = Instr(p[2], 0))
      => Execute(circ) = Execute(DropLast(circ, 2))

C5_Witness ==
  /\ event = "h"
  /\ Len(circ) = 3
  /\ circ[1].name = "ry"
  /\ circ[2].name = "h"
  /\ circ[3].name = "h"

\* The key bound to the rotation about axis a by t*pi/6
RotationKey(a, t) ==
  CASE a = "rx" -> (IF t = 1 THEN "x" ELSE "X")
    [] a = "ry" -> (IF t = 1 THEN "y" ELSE "Y")
    [] a = "rz" -> (IF t = 1 THEN "z" ELSE "Z")

\* C6: the small letter of an axis followed by its capital (RA(+pi/6) then
\* RA(-pi/6)) gives back the state before the two presses, and so does the
\* capital followed by the small letter.
C6_RotationInverse ==
  \A a \in {"rx", "ry", "rz"} : \A t \in {1, -1} :
    (/\ event = RotationKey(a, t)
     /\ Len(circ) >= 2
     /\ Last(circ) = Instr(a, t)
     /\ Before(circ) = Instr(a, -t))
      => Execute(circ) = Execute(DropLast(circ, 2))

C6_Witness ==
  /\ event = "Z"
  /\ Len(circ) = 3
  /\ circ[1].name = "h"
  /\ circ[2] = Instr("rz", 1)
  /\ circ[3] = Instr("rz", -1)

\* Every sound() call so far divided by a peak that was not zero: cos and
\* sin of theta/2 are never both 0, so the all-zero buffer of C7 is not a
\* buffer that sound() can synthesise.
PeakNeverZero ==
  \A j \in 1..Len(played) : played[j].divided /\ ~played[j].peakZero

\* C8: a note requested in the state (1, 0) has theta = 0, an all-zero right
\* channel and the carrier sin(2 pi f t) of the note at full scale on the
\* left; a note requested in the state (0, 1) has theta = pi, an all-zero
\* left channel and a right channel that is not silent.
C8_BasisStateChannelSilence ==
  \A j \in 1..Len(played) :
    LET b == played[j]
    IN  /\ Execute(circ) = Ket0 =>
             /\ ThetaCode(b.theta) = 0
             /\ b.right.silent = TRUE
             /\ b.left.silent = FALSE /\ b.left.full
             /\ b.left.f = b.f /\ b.left.bend = 0 /\ b.left.quarter = 0
        /\ Execute(circ) = Ket1 =>
             /\ ThetaCode(b.theta) = 2
             /\ b.left.silent = TRUE
             /\ b.right.silent = FALSE /\ b.right.full

C8_Witness ==
  /\ circ = <<Instr("x", 0)>>
  /\ event = "e"
  /\ Len(played) = 1
  /\ played[1].note = "E"

\* C9: the polar angle of every buffer is 2*arccos(Re(a0)) and lies in
\* [0, pi], and its phase lies in [0, 2 pi).
C9_ParameterExtraction ==
  \A j \in 1..Len(played) :
    LET b == played[j]
        sv == Execute(circ)
    IN  /\ b.theta = ArcCosRe(Cx(sv.a0.re, RZero), sv.e)
        /\ ThetaCode(b.theta) \in 0..2
        /\ b.phi \in 0..7

\* The parts of C9 on their own: the angle is the arccos of the real part,
\* the angle is within [0, pi], the phase is within [0, 2 pi).
ThetaOfRealPart ==
  \A j \in 1..Len(played) :
    played[j].theta = ArcCosRe(Cx(Execute(circ).a0.re, RZero), Execute(circ).e)
ThetaWithinPi ==
  \A j \in 1..Len(played) : ThetaCode(played[j].theta) \in 0..2
PhiWithinTwoPi ==
  \A j \in 1..Len(played) : played[j].phi \in 0..7

\* The rank of a step of key_press in the order gate, sonification, redraw
Rank(step) ==
  CASE step = "gate" -> 1
    [] step \in {"text", "sound", "play", "wait_done"} -> 2
    [] step = "draw" -> 3

====
